---- MODULE Spec2Model ----
(***************************************************************************)
(* Desktop shell of TimeTracking-Clean (desktop/src-tauri/src/lib.rs):     *)
(* the bootstrap of the Tauri builder, the setup closure that builds the   *)
(* tray menu and the tray icon, the two tray callbacks and the greet       *)
(* command.  The host framework is represented by what the code asks of    *)
(* it: a registry holding (or not) the window "main", window operations    *)
(* that return a Result, and a process that exits when asked to.           *)
(***************************************************************************)
EXTENDS Integers, Sequences, FiniteSets, TLC

VARIABLES
    pc,         \* position of run(): builder chain, setup closure, run loop
    plugins,    \* plugins registered on the builder, in order
    commands,   \* commands of the invoke handler
    items,      \* menu items created by the setup closure, in order
    menu,       \* items of the tray menu (<<>> until Menu::with_items)
    icon,       \* TRUE once the default window icon has been obtained
    trays,      \* number of tray icons built (the callbacks live on them)
    window,     \* the host's registry entry for the window "main"
    exitCode,   \* <<>> while the process runs, <<c>> after app.exit(c)
    calls,      \* window operations attempted by the last callback
    ret,        \* value returned by the last callback
    lastEvent,  \* the event (and host outcomes) the last callback ran on
    window0,    \* history: the window as the host created it
    lastVis,    \* history: last event among show / hide / left click
    allOk       \* history: no window operation has failed so far

vars == <<pc, plugins, commands, items, menu, icon, trays, window, exitCode,
          calls, ret, lastEvent, window0, lastVis, allOk>>

----------------------------------------------------------------------------
(* Bounds *)

MaxNameLen == 2

----------------------------------------------------------------------------
(* Strings are sequences of characters, so that formatting is computed.    *)

Chars == {"R", " ", "{"}

Names == UNION {[1..n -> Chars] : n \in 0..MaxNameLen}

\* the literal pieces of the format string of greet, and its placeholder
Hole == "{}"

HelloPrefix == <<"H", "e", "l", "l", "o", ",", " ">>

GreetSuffix ==
    <<"!", " ", "Y", "o", "u", "'", "v", "e", " ", "b", "e", "e", "n", " ",
      "g", "r", "e", "e", "t", "e", "d", " ", "f", "r", "o", "m", " ",
      "R", "u", "s", "t", "!">>

GreetTemplate == HelloPrefix \o <<Hole>> \o GreetSuffix

\* format!(fmt, args...): literal characters are copied, each placeholder is
\* replaced by the next argument, which is not scanned again
RECURSIVE Format(_, _)
Format(fmt, args) ==
    IF fmt = <<>> THEN <<>>
    ELSE IF Head(fmt) = Hole
         THEN Head(args) \o Format(Tail(fmt), Tail(args))
         ELSE <<Head(fmt)>> \o Format(Tail(fmt), args)

greet_trimmed(name) ==
    Format(GreetTemplate,
           <<SelectSeq(name, LAMBDA c : c # " ")>>)

greet(name) == Format(GreetTemplate, <<name>>)

----------------------------------------------------------------------------
(* The host: window registry and window operations *)

NoWindow == [exists |-> FALSE, visible |-> FALSE, focused |-> FALSE]

WindowStates ==
    {NoWindow} \cup
    {[exists |-> TRUE, visible |-> v, focused |-> f] : v, f \in BOOLEAN}

\* one callback's host outcomes: does each window operation return Ok
Outcomes == [show : BOOLEAN, set_focus : BOOLEAN, hide : BOOLEAN]

\* app.get_webview_window("main"): Some(window) iff the registry has it
get_webview_window(w) == w.exists

\* window.show(), window.set_focus(), window.hide(): Ok(()) with the effect,
\* or Err with none
show(w, ok) == IF ok THEN [w EXCEPT !.visible = TRUE] ELSE w

set_focus(w, ok) == IF ok THEN [w EXCEPT !.focused = TRUE] ELSE w

hide(w, ok) ==
    IF ok THEN [w EXCEPT !.visible = FALSE, !.focused = FALSE] ELSE w

Call(op, ok) == [op |-> op, ok |-> ok]

\* what a callback does: the window after it, the operations it attempted,
\* and the exit code it asked for (<<>> if none)
Effect(w, cs, ex) == [window |-> w, calls |-> cs, exit |-> ex]

----------------------------------------------------------------------------
(* The two callbacks of the tray icon *)

MenuIds == {"show", "hide", "quit", "about", ""}

Buttons == {"Left", "Right", "Middle"}

ButtonStates == {"Up", "Down"}

TrayEvents ==
    {[type |-> "Click", button |-> b, button_state |-> s] :
        b \in Buttons, s \in ButtonStates}
    \cup {[type |-> "DoubleClick", button |-> b, button_state |-> "Up"] :
            b \in Buttons}
    \cup {[type |-> t, button |-> "None", button_state |-> "None"] :
            t \in {"Enter", "Move", "Leave"}}

LeftUp == [type |-> "Click", button |-> "Left", button_state |-> "Up"]

\* variants of on_menu_event with one slip each
on_menu_event_focus_only(w, id, ok) ==
    CASE id = "show" ->
            IF get_webview_window(w)
            THEN Effect(set_focus(w, ok.set_focus),
                        <<Call("set_focus", ok.set_focus)>>, <<>>)
            ELSE Effect(w, <<>>, <<>>)
      [] id = "hide" ->
            IF get_webview_window(w)
            THEN Effect(hide(w, ok.hide), <<Call("hide", ok.hide)>>, <<>>)
            ELSE Effect(w, <<>>, <<>>)
      [] id = "quit" -> Effect(w, <<>>, <<0>>)
      [] OTHER -> Effect(w, <<>>, <<>>)

on_menu_event_hide_shows(w, id, ok) ==
    CASE id \in {"show", "hide"} ->
            IF get_webview_window(w)
            THEN Effect(set_focus(show(w, ok.show), ok.set_focus),
                        <<Call("show", ok.show),
                          Call("set_focus", ok.set_focus)>>,
                        <<>>)
            ELSE Effect(w, <<>>, <<>>)
      [] id = "quit" -> Effect(w, <<>>, <<0>>)
      [] OTHER -> Effect(w, <<>>, <<>>)

on_menu_event_quit_hides(w, id, ok) ==
    CASE id = "show" ->
            IF get_webview_window(w)
            THEN Effect(set_focus(show(w, ok.show), ok.set_focus),
                        <<Call("show", ok.show),
                          Call("set_focus", ok.set_focus)>>,
                        <<>>)
            ELSE Effect(w, <<>>, <<>>)
      [] id \in {"hide", "quit"} ->
            IF get_webview_window(w)
            THEN Effect(hide(w, ok.hide), <<Call("hide", ok.hide)>>, <<>>)
            ELSE Effect(w, <<>>, <<>>)
      [] OTHER -> Effect(w, <<>>, <<>>)

on_menu_event_propagate(w, id, ok) ==
    CASE id = "show" ->
            IF get_webview_window(w)
            THEN IF ok.show
                 THEN Effect(set_focus(show(w, ok.show), ok.set_focus),
                             <<Call("show", ok.show),
                               Call("set_focus", ok.set_focus)>>,
                             <<>>)
                 ELSE Effect(w, <<Call("show", ok.show)>>, <<>>)
            ELSE Effect(w, <<>>, <<>>)
      [] id = "hide" ->
            IF get_webview_window(w)
            THEN Effect(hide(w, ok.hide), <<Call("hide", ok.hide)>>, <<>>)
            ELSE Effect(w, <<>>, <<>>)
      [] id = "quit" -> Effect(w, <<>>, <<0>>)
      [] OTHER -> Effect(w, <<>>, <<>>)

\* .on_menu_event(|app, event| match event.id.as_ref() { ... })
on_menu_event(w, id, ok) ==
    CASE id = "show" ->
            IF get_webview_window(w)
            THEN Effect(set_focus(show(w, ok.show), ok.set_focus),
                        <<Call("show", ok.show),
                          Call("set_focus", ok.set_focus)>>,
                        <<>>)
            ELSE Effect(w, <<>>, <<>>)
      [] id = "hide" ->
            IF get_webview_window(w)
            THEN Effect(hide(w, ok.hide), <<Call("hide", ok.hide)>>, <<>>)
            ELSE Effect(w, <<>>, <<>>)
      [] id = "quit" -> Effect(w, <<>>, <<0>>)
      [] OTHER -> Effect(w, <<>>, <<>>)

\* variants of on_tray_icon_event with one slip each
on_tray_icon_event_show_only(w, event, ok) ==
    IF event = LeftUp
    THEN IF get_webview_window(w)
         THEN Effect(show(w, ok.show), <<Call("show", ok.show)>>, <<>>)
         ELSE Effect(w, <<>>, <<>>)
    ELSE Effect(w, <<>>, <<>>)

on_tray_icon_event_any_state(w, event, ok) ==
    IF /\ event.type = "Click"
       /\ event.button = "Left"
    THEN IF get_webview_window(w)
         THEN Effect(set_focus(show(w, ok.show), ok.set_focus),
                     <<Call("show", ok.show),
                       Call("set_focus", ok.set_focus)>>,
                     <<>>)
         ELSE Effect(w, <<>>, <<>>)
    ELSE Effect(w, <<>>, <<>>)

on_tray_icon_event_toggle(w, event, ok) ==
    IF event = LeftUp
    THEN IF get_webview_window(w)
         THEN IF w.visible
              THEN Effect(hide(w, ok.hide), <<Call("hide", ok.hide)>>, <<>>)
              ELSE Effect(set_focus(show(w, ok.show), ok.set_focus),
                          <<Call("show", ok.show),
                            Call("set_focus", ok.set_focus)>>,
                          <<>>)
         ELSE Effect(w, <<>>, <<>>)
    ELSE Effect(w, <<>>, <<>>)

\* .on_tray_icon_event(|tray, event| match event { ... })
on_tray_icon_event(w, event, ok) ==
    IF /\ event.type = "Click"
       /\ event.button = "Left"
       /\ event.button_state = "Up"
    THEN IF get_webview_window(w)
         THEN Effect(set_focus(show(w, ok.show), ok.set_focus),
                     <<Call("show", ok.show),
                       Call("set_focus", ok.set_focus)>>,
                     <<>>)
         ELSE Effect(w, <<>>, <<>>)
    ELSE Effect(w, <<>>, <<>>)

----------------------------------------------------------------------------
(* Bootstrap *)

PluginList_six ==
    <<"opener", "http", "notification", "dialog", "fs", "updater">>

PluginList ==
    <<"opener", "http", "notification", "dialog", "fs", "updater",
      "process">>

SetupSteps == <<"show_item", "hide_item", "quit_item", "menu", "icon", "tray">>

StepIndex(s) == CHOOSE i \in 1..Len(SetupSteps) : SetupSteps[i] = s

NextPc_continue(step, ok) ==
    IF StepIndex(step) = Len(SetupSteps) THEN "running"
    ELSE SetupSteps[StepIndex(step) + 1]

\* where the setup closure goes after a step: `?` and unwrap() leave the
\* closure on failure and run() then ends in expect(); Ok(()) after the last
NextPc(step, ok) ==
    IF ~ok THEN "aborted"
    ELSE IF StepIndex(step) = Len(SetupSteps) THEN "running"
         ELSE SetupSteps[StepIndex(step) + 1]

Init ==
    /\ pc = "plugin"
    /\ plugins = <<>>
    /\ commands = {}
    /\ items = <<>>
    /\ menu = <<>>
    /\ icon = FALSE
    /\ trays = 0
    /\ window = NoWindow
    /\ exitCode = <<>>
    /\ calls = <<>>
    /\ ret = <<>>
    /\ lastEvent = [kind |-> "none"]
    /\ window0 = NoWindow
    /\ lastVis = "none"
    /\ allOk = TRUE

\* .plugin(...), seven times
RegisterPlugin ==
    /\ pc = "plugin"
    /\ Len(plugins) < Len(PluginList)
    /\ plugins' = Append(plugins, PluginList[Len(plugins) + 1])
    /\ UNCHANGED <<pc, commands, items, menu, icon, trays, window, exitCode,
                   calls, ret, lastEvent, window0, lastVis, allOk>>

\* .setup(|app| ...): the closure is stored, not run
RegisterSetup ==
    /\ pc = "plugin"
    /\ Len(plugins) = Len(PluginList)
    /\ pc' = "invoke_handler"
    /\ UNCHANGED <<plugins, commands, items, menu, icon, trays, window,
                   exitCode, calls, ret, lastEvent, window0, lastVis, allOk>>

\* .invoke_handler(tauri::generate_handler![greet])
RegisterInvokeHandler ==
    /\ pc = "invoke_handler"
    /\ commands' = {"greet"}
    /\ pc' = "run"
    /\ UNCHANGED <<plugins, items, menu, icon, trays, window, exitCode,
                   calls, ret, lastEvent, window0, lastVis, allOk>>

\* .run(context): the host builds the application (its windows included)
\* and calls the setup closure, or fails and expect() panics
Run ==
    /\ pc = "run"
    /\ \E ok \in BOOLEAN :
         IF ok
         THEN \E w \in WindowStates :
                /\ window' = w
                /\ window0' = w
                /\ pc' = SetupSteps[1]
         ELSE /\ pc' = "aborted"
              /\ UNCHANGED <<window, window0>>
    /\ UNCHANGED <<plugins, commands, items, menu, icon, trays, exitCode,
                   calls, ret, lastEvent, lastVis, allOk>>

\* MenuItem::with_id(app, id, ...)?
CreateItem(step, id) ==
    /\ pc = step
    /\ \E ok \in BOOLEAN :
         /\ items' = IF ok THEN Append(items, id) ELSE items
         /\ pc' = NextPc(step, ok)
    /\ UNCHANGED <<plugins, commands, menu, icon, trays, window, exitCode,
                   calls, ret, lastEvent, window0, lastVis, allOk>>

\* Menu::with_items(app, &[&show_item, &hide_item, &quit_item])?
CreateMenu ==
    /\ pc = "menu"
    /\ \E ok \in BOOLEAN :
         /\ menu' = IF ok THEN items ELSE menu
         /\ pc' = NextPc("menu", ok)
    /\ UNCHANGED <<plugins, commands, items, icon, trays, window, exitCode,
                   calls, ret, lastEvent, window0, lastVis, allOk>>

\* app.default_window_icon().cloned().unwrap()
LoadIcon ==
    /\ pc = "icon"
    /\ \E some \in BOOLEAN :
         /\ icon' = some
         /\ pc' = NextPc("icon", some)
    /\ UNCHANGED <<plugins, commands, items, menu, trays, window, exitCode,
                   calls, ret, lastEvent, window0, lastVis, allOk>>

\* TrayIconBuilder::new()...build(app)?  then Ok(())
BuildTray ==
    /\ pc = "tray"
    /\ \E ok \in BOOLEAN :
         /\ trays' = IF ok THEN trays + 1 ELSE trays
         /\ pc' = NextPc("tray", ok)
    /\ UNCHANGED <<plugins, commands, items, menu, icon, window, exitCode,
                   calls, ret, lastEvent, window0, lastVis, allOk>>

----------------------------------------------------------------------------
(* The run loop: the host delivers events to the callbacks *)

AllSucceeded(cs) == \A i \in 1..Len(cs) : cs[i].ok

\* the callback's effect on the program state
Apply(e) ==
    /\ window' = e.window
    /\ calls' = e.calls
    /\ ret' = <<>>
    /\ exitCode' = IF e.exit # <<>> THEN e.exit ELSE exitCode
    /\ pc' = IF e.exit # <<>> THEN "exited" ELSE pc
    /\ allOk' = (allOk /\ AllSucceeded(e.calls))

MenuEvent ==
    /\ pc = "running"
    /\ trays > 0
    /\ \E id \in MenuIds, ok \in Outcomes :
         /\ Apply(on_menu_event(window, id, ok))
         /\ lastEvent' = [kind |-> "menu", id |-> id, ok |-> ok]
         /\ lastVis' = IF id \in {"show", "hide"} THEN id ELSE lastVis
    /\ UNCHANGED <<plugins, commands, items, menu, icon, trays, window0>>

TrayIconEvent ==
    /\ pc = "running"
    /\ trays > 0
    /\ \E ev \in TrayEvents, ok \in Outcomes :
         /\ Apply(on_tray_icon_event(window, ev, ok))
         /\ lastEvent' = [kind |-> "tray", event |-> ev, ok |-> ok]
         /\ lastVis' = IF ev = LeftUp THEN "show" ELSE lastVis
    /\ UNCHANGED <<plugins, commands, items, menu, icon, trays, window0>>

InvokeGreet ==
    /\ pc = "running"
    /\ "greet" \in commands
    /\ \E name \in Names :
         /\ ret' = greet(name)
         /\ lastEvent' = [kind |-> "invoke", name |-> name]
    /\ calls' = <<>>
    /\ UNCHANGED <<pc, plugins, commands, items, menu, icon, trays, window,
                   exitCode, window0, lastVis, allOk>>

Next ==
    \/ RegisterPlugin
    \/ RegisterSetup
    \/ RegisterInvokeHandler
    \/ Run
    \/ CreateItem("show_item", "show")
    \/ CreateItem("hide_item", "hide")
    \/ CreateItem("quit_item", "quit")
    \/ CreateMenu
    \/ LoadIcon
    \/ BuildTray
    \/ MenuEvent
    \/ TrayIconEvent
    \/ InvokeGreet

Spec == Init /\ [][Next]_vars

----------------------------------------------------------------------------
(* Steps, as seen from a pair of states: every callback records the event  *)
(* it ran on, so a step taken in the run loop is the step of lastEvent'.   *)

MenuStep(id) ==
    /\ pc = "running"
    /\ lastEvent'.kind = "menu"
    /\ lastEvent'.id = id

TrayStep ==
    /\ pc = "running"
    /\ lastEvent'.kind = "tray"

GreetStep ==
    /\ pc = "running"
    /\ lastEvent'.kind = "invoke"

\* no error state is entered: the process runs on and will take events
StillServing ==
    /\ pc' = "running"
    /\ exitCode' = <<>>
    /\ trays' = trays
    /\ commands' = commands

\* C1 (as stated): a menu event "show" leaves an existing window "main"
\* visible and focused whatever it was before, and changes nothing and
\* raises no error when the window is absent.
C1_ShowAlwaysVisibleFocused ==
    [][MenuStep("show") =>
         IF window.exists
         THEN window'.exists /\ window'.visible /\ window'.focused
         ELSE window' = window /\ StillServing]_vars

\* C1 (amended): a menu event "show" on an existing window "main" leaves it
\* visible if show() succeeded and focused if set_focus() succeeded, whatever
\* it was before; with the window absent nothing changes and no error is
\* raised.
C1_ShowVisibleFocusedIfOpsSucceed ==
    [][MenuStep("show") =>
         IF window.exists
         THEN /\ window'.exists
              /\ lastEvent'.ok.show => window'.visible
              /\ lastEvent'.ok.set_focus => window'.focused
              /\ StillServing
         ELSE /\ window' = window
              /\ calls' = <<>>
              /\ StillServing]_vars

C1_Witness ==
    /\ pc = "running"
    /\ lastEvent.kind = "menu"
    /\ lastEvent.id = "show"
    /\ window0.exists /\ ~window0.visible /\ ~window0.focused
    /\ window.visible /\ window.focused
    /\ lastVis = "show"

\* C2 (as stated): a menu event "hide" leaves an existing window "main"
\* hidden whatever it was before, and changes nothing and raises no error
\* when the window is absent.
C2_HideAlwaysHidden ==
    [][MenuStep("hide") =>
         IF window.exists
         THEN window'.exists /\ ~window'.visible
         ELSE window' = window /\ StillServing]_vars

\* C2 (amended): a menu event "hide" on an existing window "main" leaves it
\* hidden if hide() succeeded, whatever it was before; with the window absent
\* nothing changes and no error is raised.
C2_HideHiddenIfOpSucceeds ==
    [][MenuStep("hide") =>
         IF window.exists
         THEN /\ window'.exists
              /\ lastEvent'.ok.hide => ~window'.visible
              /\ StillServing
         ELSE /\ window' = window
              /\ calls' = <<>>
              /\ StillServing]_vars

C2_Witness ==
    /\ pc = "running"
    /\ lastEvent.kind = "menu"
    /\ lastEvent.id = "hide"
    /\ window0.exists /\ window0.visible
    /\ window.exists /\ ~window.visible
    /\ calls = <<Call("hide", TRUE)>>

\* C3: a menu event "quit" ends the process with exit code 0 from any
\* state; nothing changes once the process has ended; and the process ends
\* (or gets an exit code) in no step other than a menu event "quit".
C3_QuitExitsWithZero ==
    [][/\ MenuStep("quit") =>
            pc' = "exited" /\ exitCode' = <<0>> /\ window' = window
       /\ pc = "exited" =>
            window' = window /\ pc' = "exited" /\ exitCode' = exitCode
       /\ (pc' = "exited" \/ exitCode' # exitCode) =>
            \/ MenuStep("quit")
            \/ pc = "exited" /\ exitCode' = exitCode]_vars

C3_Witness ==
    /\ pc = "exited"
    /\ exitCode = <<0>>
    /\ lastEvent.kind = "menu"
    /\ lastEvent.id = "quit"
    /\ window.exists /\ ~window.visible

\* C4 (as stated): a left-button-up tray click does what the menu event
\* "show" does from the same state, that is, it leaves an existing window
\* visible and focused and changes nothing when the window is absent.
C4_ClickSameAsShowAlwaysVisible ==
    [][(TrayStep /\ lastEvent'.event = LeftUp) =>
         LET m == on_menu_event(window, "show", lastEvent'.ok) IN
           /\ window' = m.window
           /\ calls' = m.calls
           /\ m.exit = <<>> /\ StillServing
           /\ IF window.exists
              THEN window'.visible /\ window'.focused
              ELSE window' = window]_vars

\* C4 (amended): a left-button-up tray click does what the menu event "show"
\* does from the same state under the same outcomes of show() and
\* set_focus(): the same window state, the same operations attempted, no
\* exit; an existing window ends visible and focused when both operations
\* succeed, and nothing changes when the window is absent.
C4_ClickSameAsShow ==
    [][(TrayStep /\ lastEvent'.event = LeftUp) =>
         LET m == on_menu_event(window, "show", lastEvent'.ok) IN
           /\ window' = m.window
           /\ calls' = m.calls
           /\ m.exit = <<>> /\ StillServing
           /\ IF window.exists
              THEN (lastEvent'.ok.show /\ lastEvent'.ok.set_focus) =>
                      window'.visible /\ window'.focused
              ELSE window' = window]_vars

C4_Witness ==
    /\ pc = "running"
    /\ lastEvent.kind = "tray"
    /\ lastEvent.event = LeftUp
    /\ window0.exists /\ ~window0.visible
    /\ window.visible /\ window.focused
    /\ calls = <<Call("show", TRUE), Call("set_focus", TRUE)>>

\* C5: a tray event other than a left-button-up click, and a menu event
\* whose identifier is none of "show", "hide", "quit", change nothing: the
\* window is as it was, no window operation is attempted, the process runs.
C5_OtherEventsIgnored ==
    [][(\/ TrayStep /\ lastEvent'.event # LeftUp
        \/ /\ pc = "running"
           /\ lastEvent'.kind = "menu"
           /\ lastEvent'.id \notin {"show", "hide", "quit"}) =>
         /\ window' = window
         /\ calls' = <<>>
         /\ StillServing
         /\ UNCHANGED <<plugins, items, menu, icon>>]_vars

C5_Witness ==
    /\ pc = "running"
    /\ lastEvent.kind = "tray"
    /\ lastEvent.event =
         [type |-> "Click", button |-> "Left", button_state |-> "Down"]
    /\ window.exists /\ ~window.visible
    /\ calls = <<>>

\* C6: greet(name) returns "Hello, " followed by name, unaltered, followed
\* by "! You've been greeted from Rust!", for every name (the empty one
\* included), and changes neither the window nor the process state.
C6_GreetReturnsGreeting ==
    [][GreetStep =>
         /\ ret' = HelloPrefix \o lastEvent'.name \o GreetSuffix
         /\ Len(ret') = Len(lastEvent'.name) + 39
         /\ window' = window
         /\ StillServing]_vars

C6_Witness ==
    /\ pc = "running"
    /\ lastEvent.kind = "invoke"
    /\ lastEvent.name = <<>>
    /\ ret = HelloPrefix \o GreetSuffix
    /\ window.exists

\* C7: a window operation that fails inside a callback is swallowed: the
\* callback attempts each of its operations once, set_focus also after a
\* failed show, and the process runs on and keeps taking events.
C7_FailuresSwallowed ==
    [][(pc = "running" /\ lastEvent'.kind \in {"menu", "tray"}
                       /\ window.exists) =>
         LET ok == lastEvent'.ok
             showLike == \/ MenuStep("show")
                         \/ TrayStep /\ lastEvent'.event = LeftUp
         IN  /\ showLike =>
                  calls' = <<Call("show", ok.show),
                             Call("set_focus", ok.set_focus)>>
             /\ MenuStep("hide") => calls' = <<Call("hide", ok.hide)>>
             /\ ~MenuStep("quit") => StillServing /\ ret' = <<>>
             /\ window'.exists]_vars

C7_Witness ==
    /\ pc = "running"
    /\ lastEvent.kind = "menu"
    /\ lastEvent.id = "show"
    /\ calls = <<Call("show", FALSE), Call("set_focus", TRUE)>>
    /\ ~window.visible /\ window.focused
    /\ ~allOk

\* has the setup step t been executed, in a state with these values
Executed(t, its, mn, ic, tr) ==
    CASE t = "show_item" -> Len(its) >= 1
      [] t = "hide_item" -> Len(its) >= 2
      [] t = "quit_item" -> Len(its) >= 3
      [] t = "menu" -> mn # <<>>
      [] t = "icon" -> ic
      [] t = "tray" -> tr > 0

InSetup == \E i \in 1..Len(SetupSteps) : pc = SetupSteps[i]

\* C8: a setup step that fails aborts the application: the steps after it
\* are not executed, the aborted application never changes again, and the
\* run loop is entered only with every setup step executed.
C8_SetupFailureAborts ==
    /\ [][/\ (InSetup /\ ~Executed(pc, items', menu', icon', trays')) =>
               /\ pc' = "aborted"
               /\ \A i \in 1..Len(SetupSteps) :
                     i >= StepIndex(pc) =>
                        ~Executed(SetupSteps[i], items', menu', icon', trays')
          /\ pc = "aborted" => UNCHANGED vars]_vars
    /\ [](pc \in {"running", "exited"} =>
            \A i \in 1..Len(SetupSteps) :
                Executed(SetupSteps[i], items, menu, icon, trays))
    /\ [](pc = "aborted" =>
            lastEvent.kind = "none" /\ ret = <<>> /\ calls = <<>>)

C8_Witness ==
    /\ pc = "aborted"
    /\ items = <<"show">>
    /\ menu = <<>>
    /\ ~icon
    /\ trays = 0

PluginSet == {plugins[i] : i \in 1..Len(plugins)}

\* C9 (as stated): in every run that reaches the run loop exactly six
\* plugins are registered and the tray icon has been built exactly once.
C9_SixPlugins ==
    pc = "running" => Cardinality(PluginSet) = 6 /\ trays = 1

\* C9 (amended): in every run that reaches the run loop exactly seven
\* plugins are registered (opener, http, notification, dialog, fs, updater,
\* process), the tray icon has been built exactly once and greet is the
\* single registered command.
C9_SevenPlugins ==
    pc \in {"running", "exited"} =>
        /\ Cardinality(PluginSet) = 7
        /\ Len(plugins) = 7
        /\ trays = 1
        /\ commands = {"greet"}
        /\ menu = <<"show", "hide", "quit">>

C9_Witness ==
    /\ pc = "running"
    /\ Cardinality(PluginSet) = 7
    /\ trays = 1
    /\ lastEvent.kind = "none"

\* C10: while the window exists, every window operation has succeeded and
\* the process has not quit, the window is visible and focused if the last
\* event among "show", "hide" and the left-button-up click was "show" or the
\* click, hidden if it was "hide", and as visible as it was created if there
\* was none; and no callback creates or destroys the window.
C10_VisibilityFollowsLastEvent ==
    /\ []((pc = "running" /\ window0.exists /\ allOk) =>
            /\ window.exists
            /\ lastVis = "show" => window.visible /\ window.focused
            /\ lastVis = "hide" => ~window.visible
            /\ lastVis = "none" => window.visible = window0.visible)
    /\ [][pc = "running" => window'.exists = window.exists]_vars

C10_Witness ==
    /\ pc = "running"
    /\ allOk
    /\ lastVis = "hide"
    /\ lastEvent.kind = "invoke"
    /\ window0.exists /\ window0.visible
    /\ window.exists /\ ~window.visible
====
